---- MODULE Spec2Model ----
(***************************************************************************)
(* The azurerm_sql_elasticpool resource adapter                            *)
(* (azurerm/resource_arm_sql_elasticpool.go): the attribute bag d, the     *)
(* remote SQL elastic-pools API, and the Create/Update, Read and Delete    *)
(* handlers, one action per remote call of a handler.                      *)
(*                                                                         *)
(* Go pointers and unset attributes are options: Nil is <<>>, Some(v) is   *)
(* <<v>>.  A Go error is a sequence of strings, the nil error being <<>>.  *)
(* A resource identifier is the sequence of its path segments.             *)
(***************************************************************************)
EXTENDS Integers, Sequences, FiniteSets, TLC

VARIABLES d, d0, desired, remote, pc, op, calls, ret

vars == <<d, d0, desired, remote, pc, op, calls, ret>>

Nil == <<>>
Some(v) == <<v>>
Deref(p) == p[1]

NoError == <<>>

(* ---------------------------------------------------------------- bounds *)

\* Optional sizing fields of the configuration range over 0..MaxSize (and unset).
MaxSize == 1

(* -------------------------------------------------------- value domains *)

ResourceGroups == {"rg1"}
Servers == {"srv1"}
Pools == {"pool1"}

Triple(rg, srv, name) == [rg |-> rg, srv |-> srv, name |-> name]

Triples == {Triple(rg, srv, n) : rg \in ResourceGroups, srv \in Servers, n \in Pools}

\* The identifier the API gives the pool (rg, srv, name).
PoolId(rg, srv, name) ==
    <<"subscriptions", "sub1", "resourceGroups", rg, "providers", "Microsoft.Sql",
      "servers", srv, "elasticPools", name>>

\* Identifiers the parser rejects: an odd number of segments, and no subscription.
OddId == <<"subscriptions", "sub1", "resourceGroups">>
NoSubscriptionId == <<"resourceGroups", "rg1", "servers", "srv1">>
\* A resource-group identifier: parses, but names no server and no pool.
GroupOnlyId == <<"subscriptions", "sub1", "resourceGroups", "rg1">>
EmptyId == <<>>

\* The identifiers an import may name: a pool the service may hold, a pool it
\* does not hold, and identifiers of other shapes.
ImportIds == {PoolId(t.rg, t.srv, t.name) : t \in Triples}
                \cup {PoolId("rg1", "srv1", "pool2"), OddId, NoSubscriptionId, GroupOnlyId}

(* ------------------------------------------------------ identifier parse *)

RECURSIVE PairsOK(_)
\* Every key and every value of the key/value path is non-empty.
PairsOK(s) ==
    IF Len(s) < 2 THEN TRUE
    ELSE s[1] # "" /\ s[2] # "" /\ PairsOK(SubSeq(s, 3, Len(s)))

RECURSIVE Lookup(_, _)
\* componentMap[key]: the value of the last pair with that key, "" when there is none.
Lookup(s, key) ==
    IF Len(s) < 2 THEN ""
    ELSE LET rest == Lookup(SubSeq(s, 3, Len(s)), key)
         IN  IF rest # "" THEN rest
             ELSE IF s[1] = key THEN s[2] ELSE ""

\* parseAzureResourceID: the error ("" when the identifier parses).
parseAzureResourceIDError(id) ==
    IF id = EmptyId THEN "Cannot parse Azure Id"
    ELSE IF Len(id) % 2 # 0 THEN "The number of path segments is not divisible by 2"
    ELSE IF ~PairsOK(id) THEN "Key/Value cannot be empty strings"
    ELSE IF Lookup(id, "subscriptions") = "" THEN "No subscription ID found"
    ELSE IF Lookup(id, "resourceGroups") = "" /\ Lookup(id, "resourcegroups") = ""
         THEN "No resource group name found"
    ELSE ""

\* parseArmSqlElasticPoolId: (resource group, server, pool, error).
parseArmSqlElasticPoolId(id) ==
    LET e == parseAzureResourceIDError(id)
    IN  IF e # ""
        THEN [rg |-> "", srv |-> "", name |-> "",
              err |-> <<"[ERROR] Unable to parse SQL ElasticPool ID">> \o id \o <<e>>]
        ELSE [rg   |-> IF Lookup(id, "resourceGroups") # ""
                       THEN Lookup(id, "resourceGroups")
                       ELSE Lookup(id, "resourcegroups"),
              srv  |-> Lookup(id, "servers"),
              name |-> Lookup(id, "elasticPools"),
              err  |-> NoError]

(* ------------------------------------------------ the attribute bag (d) *)

IntKeys == {"dtu", "db_dtu_min", "db_dtu_max", "pool_size"}

\* The zero value of an attribute's type.
Zero(k) == IF k \in IntKeys THEN 0 ELSE IF k = "tags" THEN {} ELSE ""

\* d.Get(k): the attribute, or the zero value of its type when it is unset.
Get(bag, k) == IF bag[k] = Nil THEN Zero(k) ELSE Deref(bag[k])

\* d.GetOk(k): the attribute and whether it is set to a non-zero value.
GetOk(bag, k) == [val |-> Get(bag, k), ok |-> bag[k] # Nil /\ Deref(bag[k]) # Zero(k)]

\* d.Set(k, v), v an option (a nil pointer unsets the attribute).
Set(bag, k, v) == [bag EXCEPT ![k] = v]

\* d.SetId(id)
SetId(bag, id) == [bag EXCEPT !.id = id]

\* The bag of a resource that is not in the state.
EmptyBag ==
    [id |-> EmptyId, name |-> Nil, resource_group_name |-> Nil, server_name |-> Nil,
     location |-> Nil, edition |-> Nil, dtu |-> Nil, db_dtu_min |-> Nil,
     db_dtu_max |-> Nil, pool_size |-> Nil, creation_date |-> Nil, tags |-> Nil]

(* ------------------------------------------------------ the configuration *)

OptSize == {Nil} \cup {Some(n) : n \in 0..MaxSize}

\* validateSqlElasticPoolEdition: the edition is one of the three of the SDK.
validateSqlElasticPoolEdition(v) == v \in {"Basic", "Standard", "Premium"}

\* The configurations the engine hands to Create and Update: the required
\* attributes set, each optional sizing attribute unset or set.
Configs ==
    [name : {"pool1"}, resource_group_name : {"rg1"}, server_name : {"srv1"},
     location : {"West US"}, edition : {"Standard"}, dtu : {100},
     db_dtu_min : OptSize, db_dtu_max : OptSize, pool_size : OptSize,
     tags : {{<<"env", "prod">>}}]

OptionalComputed == {"db_dtu_min", "db_dtu_max", "pool_size"}

\* The bag the engine builds for a handler from the prior bag and the
\* configuration: a configured attribute takes the configured value, an
\* Optional+Computed attribute left out of the configuration keeps the value
\* of the prior state, creation_date (Computed only) is never configured.
MergeBag(prior, cfg) ==
    [k \in DOMAIN EmptyBag |->
        IF k = "id" THEN prior.id
        ELSE IF k = "creation_date" THEN prior.creation_date
        ELSE IF k \in OptionalComputed
             THEN IF cfg[k] # Nil THEN cfg[k] ELSE prior[k]
        ELSE Some(cfg[k])]

(* ------------------------------------------------------------ the payload *)

\* Go's int32(x) of an int: the value itself within -2^31 .. 2^31 - 1, the
\* range of every integer of this model (the sizes are at most 5000).
Int32(x) == x

\* expandTags: the tag map (a set of key/value pairs) as a map to string pointers.
expandTags(tagsMap) == Some({<<p[1], Some(p[2])>> : p \in tagsMap})

\* flattenAndSetTags: the pairs of the API's map whose value is not nil, as strings.
flattenAndSetTags(bag, tagMap) ==
    Set(bag, "tags",
        IF tagMap = Nil THEN Some({})
        ELSE Some({<<p[1], Deref(p[2])>> : p \in {q \in Deref(tagMap) : q[2] # Nil}}))

\* getArmSqlElasticPoolProperties(d)
getArmSqlElasticPoolProperties(bag) ==
    [Edition        |-> Get(bag, "edition"),
     Dtu            |-> Some(Int32(Get(bag, "dtu"))),
     DatabaseDtuMin |-> IF GetOk(bag, "db_dtu_min").ok
                        THEN Some(Int32(GetOk(bag, "db_dtu_min").val)) ELSE Nil,
     DatabaseDtuMax |-> IF GetOk(bag, "db_dtu_max").ok
                        THEN Some(Int32(GetOk(bag, "db_dtu_max").val)) ELSE Nil,
     StorageMB      |-> IF GetOk(bag, "pool_size").ok
                        THEN Some(Int32(GetOk(bag, "pool_size").val)) ELSE Nil,
     CreationDate   |-> Nil]

\* The sql.ElasticPool value Create sends.
ElasticPoolPayload(bag) ==
    [ID       |-> Nil,
     Name     |-> Some(Get(bag, "name")),
     Location |-> Some(Get(bag, "location")),
     Props    |-> Some(getArmSqlElasticPoolProperties(bag)),
     Tags     |-> expandTags(Get(bag, "tags"))]

(* ------------------------------------------------------ the remote API *)

\* What a failed remote call reports: a server error.
FailureStatuses == {"500"}

\* The error the SDK returns for a response status.
RemoteError(status) == IF status = "200" THEN NoError ELSE <<"autorest.DetailedError", status>>

\* utils.ResponseWasNotFound(resp.Response)
ResponseWasNotFound(status) == status = "404"

\* One remote call of the current invocation: the request and its response.
Call(opn, t, payload, status, body) ==
    [op |-> opn, rg |-> t.rg, srv |-> t.srv, name |-> t.name, payload |-> payload,
     status |-> status, err |-> RemoteError(status), body |-> body]

\* The status of a get or a delete that the server answers.
AnswerStatus(t) == IF t \in remote THEN "200" ELSE "404"

CreationTime == <<2024, 1, 1, 0, 0, 0>>

\* date.Format(time.RFC3339)
FormatRFC3339(t) ==
    IF t = <<2024, 1, 1, 0, 0, 0>> THEN "2024-01-01T00:00:00Z" ELSE "0001-01-01T00:00:00Z"

\* azureRMNormalizeLocation: lower case, spaces removed.
azureRMNormalizeLocation(l) ==
    CASE l = "West US" -> "westus"
      [] l = "westus" -> "westus"
      [] OTHER -> l

\* The properties container of a get response: every optional field nil or present.
ResponseProps ==
    [Edition : {"Standard"}, Dtu : {Nil, Some(100)}, DatabaseDtuMin : {Nil, Some(10)},
     DatabaseDtuMax : {Nil, Some(50)}, StorageMB : {Nil, Some(5000)},
     CreationDate : {Nil, Some(CreationTime)}]

FullProps ==
    [Edition |-> "Standard", Dtu |-> Some(100), DatabaseDtuMin |-> Some(10),
     DatabaseDtuMax |-> Some(50), StorageMB |-> Some(5000),
     CreationDate |-> Some(CreationTime)]

ResponseTags == Some({<<"env", Some("prod")>>, <<"owner", Nil>>})

\* The bodies the get of Create may carry: Create reads the ID only.
CreateGetBodies(t) ==
    [ID : {Nil, Some(PoolId(t.rg, t.srv, t.name)), Some(OddId)}, Name : {Some(t.name)},
     Location : {Some("West US")}, Props : {Some(FullProps)}, Tags : {ResponseTags}]

\* The bodies the get of Read may carry: Read reads everything but the ID.
ReadGetBodies(t) ==
    [ID : {Some(PoolId(t.rg, t.srv, t.name))}, Name : {Some(t.name)},
     Location : {Nil, Some("West US")},
     Props : {Nil} \cup {Some(p) : p \in ResponseProps}, Tags : {ResponseTags}]

(* ------------------------------------------------------------ the handlers *)

\* A handler's step: the bag it leaves, where it goes, and what it returns.
Step(bag, where, err) == [bag |-> bag, pc |-> where, ret |-> err]

\* A Create that goes on to the wait although CreateOrUpdate failed.
AfterCreateOrUpdateIgnoringError(bag, err) == Step(bag, "wait", NoError)

\* Create, after client.CreateOrUpdate returned err.
AfterCreateOrUpdate(bag, err) ==
    IF err # NoError THEN Step(bag, "returned", err) ELSE Step(bag, "wait", NoError)

\* A Create that goes on to the get although the wait failed.
AfterWaitForCompletionIgnoringError(bag, err) == Step(bag, "get", NoError)

\* Create, after future.WaitForCompletion returned err.
AfterWaitForCompletion(bag, err) ==
    IF err # NoError THEN Step(bag, "returned", err) ELSE Step(bag, "get", NoError)

\* A Create without the check of read.ID: an absent ID is taken as the empty
\* identifier and Read is called.
AfterCreateGetUnchecked(bag, err, body) ==
    IF err # NoError THEN Step(bag, "returned", err)
    ELSE Step(SetId(bag, IF Deref(body).ID = Nil THEN EmptyId ELSE Deref(Deref(body).ID)),
              "read", NoError)

\* Create, after client.Get returned (read, err): the ID check, SetId, and the
\* delegation to Read.
AfterCreateGet(bag, err, body) ==
    IF err # NoError THEN Step(bag, "returned", err)
    ELSE IF Deref(body).ID = Nil
    THEN Step(bag, "returned",
              <<"Cannot read SQL ElasticPool ID", Get(bag, "name"),
                Get(bag, "resource_group_name")>>)
    ELSE Step(SetId(bag, Deref(Deref(body).ID)), "read", NoError)

\* Read, the properties container of a successful response: a nil field that
\* is dereferenced panics, with the attributes set before it written.
ReadProperties(bag, props) ==
    LET b1 == Set(bag, "edition", Some(props.Edition))
        b2 == Set(b1, "dtu", props.Dtu)
        b3 == Set(b2, "db_dtu_min", props.DatabaseDtuMin)
        b4 == Set(b3, "db_dtu_max", props.DatabaseDtuMax)
        b5 == Set(b4, "pool_size", props.StorageMB)
        b6 == IF props.CreationDate # Nil
              THEN Set(b5, "creation_date", Some(FormatRFC3339(Deref(props.CreationDate))))
              ELSE b5
    IN  IF props.Dtu = Nil THEN Step(b1, "panicked", NoError)
        ELSE IF props.DatabaseDtuMin = Nil THEN Step(b2, "panicked", NoError)
        ELSE IF props.DatabaseDtuMax = Nil THEN Step(b3, "panicked", NoError)
        ELSE IF props.StorageMB = Nil THEN Step(b4, "panicked", NoError)
        ELSE Step(b6, "returned", NoError)

\* Read, a successful response: the attributes written from it.
ReadSuccess(bag, p, resp) ==
    LET b1 == Set(bag, "name", resp.Name)
        b2 == Set(b1, "resource_group_name", Some(p.rg))
        b3 == Set(b2, "location", Some(azureRMNormalizeLocation(Deref(resp.Location))))
        b4 == Set(b3, "server_name", Some(p.srv))
        r  == IF resp.Props # Nil THEN ReadProperties(b4, Deref(resp.Props))
              ELSE Step(b4, "returned", NoError)
    IN  IF resp.Location = Nil THEN Step(b2, "panicked", NoError)
        ELSE IF r.pc = "panicked" THEN r
        ELSE Step(flattenAndSetTags(r.bag, resp.Tags), "returned", NoError)

\* A Read without the not-found case: every error of the get is returned.
AfterReadGetNoNotFound(bag, p, status, body) ==
    IF RemoteError(status) # NoError
    THEN Step(bag, "returned",
              <<"Error making Read request on Sql Elastic Pool", p.name>>
                  \o RemoteError(status))
    ELSE ReadSuccess(bag, p, Deref(body))

\* A Read that takes every error of the get for not-found.
AfterReadGetAlwaysNotFound(bag, p, status, body) ==
    IF RemoteError(status) # NoError
    THEN Step(SetId(bag, EmptyId), "returned", NoError)
    ELSE ReadSuccess(bag, p, Deref(body))

\* Read, after client.Get returned (resp, err); p is the parsed identifier.
AfterReadGet(bag, p, status, body) ==
    IF RemoteError(status) # NoError
    THEN IF ResponseWasNotFound(status)
         THEN Step(SetId(bag, EmptyId), "returned", NoError)
         ELSE Step(bag, "returned",
                   <<"Error making Read request on Sql Elastic Pool", p.name>>
                       \o RemoteError(status))
    ELSE ReadSuccess(bag, p, Deref(body))

\* A Delete that addresses the pool by the attributes of the bag, as Create does.
DeleteTargetFromAttributes(bag) ==
    [rg |-> Get(bag, "resource_group_name"), srv |-> Get(bag, "server_name"),
     name |-> Get(bag, "name"), err |-> NoError]

\* Delete: the pool the delete call addresses.
DeleteTarget(bag) == parseArmSqlElasticPoolId(bag.id)

\* A Delete that clears the identifier once the remote delete succeeded.
AfterDeleteClearingId(bag, err) ==
    Step(IF err = NoError THEN SetId(bag, EmptyId) ELSE bag, "returned", err)

\* Delete, after elasticPoolsClient.Delete returned err.
AfterDelete(bag, err) == Step(bag, "returned", err)

(* -------------------------------------------------------------- the state *)

\* No configuration: the engine is not running Create or Update.
NoConfig ==
    [name |-> "", resource_group_name |-> "", server_name |-> "", location |-> "",
     edition |-> "", dtu |-> 0, db_dtu_min |-> Nil, db_dtu_max |-> Nil,
     pool_size |-> Nil, tags |-> {}]

Init ==
    /\ d = EmptyBag
    /\ d0 = EmptyBag
    /\ desired = NoConfig
    /\ remote = {}
    /\ pc = "idle"
    /\ op = "none"
    /\ calls = <<>>
    /\ ret = NoError

\* The engine calls a handler with the bag `bag`.
Invoke(handler, where, bag, cfg) ==
    /\ d' = bag
    /\ d0' = bag
    /\ desired' = cfg
    /\ op' = handler
    /\ pc' = where
    /\ calls' = <<>>
    /\ ret' = NoError
    /\ UNCHANGED remote

\* The running handler takes the step s.
Take(s) ==
    /\ d' = s.bag
    /\ pc' = s.pc
    /\ ret' = s.ret

(* ----------------------------------------------------- the engine's calls *)

\* Create: the resource is absent, the bag is built from the configuration.
BeginCreate ==
    /\ pc = "idle"
    /\ d.id = EmptyId
    /\ \E cfg \in Configs :
          /\ validateSqlElasticPoolEdition(cfg.edition)
          /\ Invoke("Create", "create", MergeBag(EmptyBag, cfg), cfg)

\* Update (the same function as Create): the resource is present.
BeginUpdate ==
    /\ pc = "idle"
    /\ d.id # EmptyId
    /\ \E cfg \in Configs :
          /\ validateSqlElasticPoolEdition(cfg.edition)
          /\ Invoke("Update", "create", MergeBag(d, cfg), cfg)

BeginRead ==
    /\ pc = "idle"
    /\ d.id # EmptyId
    /\ Invoke("Read", "read", d, NoConfig)

BeginDelete ==
    /\ pc = "idle"
    /\ d.id # EmptyId
    /\ Invoke("Delete", "delete", d, NoConfig)

\* Importer (ImportStatePassthrough): the bag is the given identifier alone.
Import ==
    /\ pc = "idle"
    /\ d.id = EmptyId
    /\ \E id \in ImportIds :
          /\ d' = SetId(EmptyBag, id)
          /\ d0' = d'
    /\ UNCHANGED <<desired, remote, pc, op, calls, ret>>

\* The handler returned: the engine drops the resource after a Delete that
\* succeeded and when the handler left no identifier, and keeps the bag otherwise.
Finish ==
    /\ pc = "returned"
    /\ d' = IF (op = "Delete" /\ ret = NoError) \/ d.id = EmptyId THEN EmptyBag ELSE d
    /\ d0' = d'
    /\ desired' = NoConfig
    /\ pc' = "idle"
    /\ op' = "none"
    /\ calls' = <<>>
    /\ ret' = NoError
    /\ UNCHANGED remote

(* ------------------------------------------------- the handlers' actions *)

\* The pool Create addresses: the attributes of the bag.
CreateTarget(bag) ==
    Triple(Get(bag, "resource_group_name"), Get(bag, "server_name"), Get(bag, "name"))

\* resourceArmSqlElasticPoolCreate, to the return of client.CreateOrUpdate.
CreateOrUpdate ==
    /\ pc = "create"
    /\ \E status \in FailureStatuses \cup {"200"} :
          /\ calls' = Append(calls, Call("CreateOrUpdate", CreateTarget(d),
                                         Some(ElasticPoolPayload(d)), status, Nil))
          /\ Take(AfterCreateOrUpdate(d, RemoteError(status)))
    /\ UNCHANGED <<d0, desired, remote, op>>

\* resourceArmSqlElasticPoolCreate, future.WaitForCompletion: the pool exists
\* once the long-running operation completed.
WaitForCompletion ==
    /\ pc = "wait"
    /\ \E status \in FailureStatuses \cup {"200"} :
          /\ calls' = Append(calls, Call("WaitForCompletion", CreateTarget(d), Nil,
                                         status, Nil))
          /\ remote' = IF status = "200" THEN remote \cup {CreateTarget(d)} ELSE remote
          /\ Take(AfterWaitForCompletion(d, RemoteError(status)))
    /\ UNCHANGED <<d0, desired, op>>

\* resourceArmSqlElasticPoolCreate, client.Get and what follows it up to the
\* call of Read.
CreateGet ==
    /\ pc = "get"
    /\ LET t == CreateTarget(d)
       IN  \E status \in FailureStatuses \cup {AnswerStatus(t)} :
           \E body \in IF status = "200" THEN {Some(b) : b \in CreateGetBodies(t)}
                       ELSE {Nil} :
              /\ calls' = Append(calls, Call("Get", t, Nil, status, body))
              /\ Take(AfterCreateGet(d, RemoteError(status), body))
    /\ UNCHANGED <<d0, desired, remote, op>>

\* resourceArmSqlElasticPoolRead, called by the engine or by Create.
Read ==
    /\ pc = "read"
    /\ LET p == parseArmSqlElasticPoolId(d.id)
           t == Triple(p.rg, p.srv, p.name)
       IN  IF p.err # NoError
           THEN /\ Take(Step(d, "returned", p.err))
                /\ UNCHANGED calls
           ELSE \E status \in FailureStatuses \cup {AnswerStatus(t)} :
                \E body \in IF status = "200" THEN {Some(b) : b \in ReadGetBodies(t)}
                            ELSE {Nil} :
                   /\ calls' = Append(calls, Call("Get", t, Nil, status, body))
                   /\ Take(AfterReadGet(d, p, status, body))
    /\ UNCHANGED <<d0, desired, remote, op>>

\* resourceArmSqlElasticPoolDelete: the service answers a delete with success
\* whether or not the pool existed.
Delete ==
    /\ pc = "delete"
    /\ LET p == DeleteTarget(d)
           t == Triple(p.rg, p.srv, p.name)
       IN  IF p.err # NoError
           THEN /\ Take(Step(d, "returned", p.err))
                /\ UNCHANGED <<calls, remote>>
           ELSE \E status \in FailureStatuses \cup {"200"} :
                   /\ calls' = Append(calls, Call("Delete", t, Nil, status, Nil))
                   /\ remote' = IF status = "200" THEN remote \ {t} ELSE remote
                   /\ Take(AfterDelete(d, RemoteError(status)))
    /\ UNCHANGED <<d0, desired, op>>

(* ------------------------------------------------------------ the outside *)

\* A pool is deleted outside this tool, at any moment.
ExternalDelete ==
    /\ \E t \in remote : remote' = remote \ {t}
    /\ UNCHANGED <<d, d0, desired, pc, op, calls, ret>>

\* A pool is created outside this tool, at any moment.
ExternalCreate ==
    /\ \E t \in Triples \ remote : remote' = remote \cup {t}
    /\ UNCHANGED <<d, d0, desired, pc, op, calls, ret>>

Next ==
    \/ BeginCreate
    \/ BeginUpdate
    \/ BeginRead
    \/ BeginDelete
    \/ Import
    \/ Finish
    \/ CreateOrUpdate
    \/ WaitForCompletion
    \/ CreateGet
    \/ Read
    \/ Delete
    \/ ExternalDelete
    \/ ExternalCreate

Spec == Init /\ [][Next]_vars

(* ------------------------------------------------------------- properties *)

InCreate == op \in {"Create", "Update"}

\* The get of Read has been issued: the one call of a Read the engine made, or
\* the fourth call of a Create.
ReadGetIssued == (op = "Read" /\ Len(calls) = 1) \/ (InCreate /\ Len(calls) = 4)

LastCall == calls[Len(calls)]

\* The bag as Read received it: the engine's bag, or Create's bag with the
\* fetched identifier assigned.
ReadEntryBag == IF op = "Read" THEN d0 ELSE SetId(d0, Deref(Deref(calls[3].body).ID))

\* C1: when the get of Read reports not-found, Read returns success and leaves
\* the bag it received with the identifier emptied and nothing else changed.
C1_ReadNotFoundClearsId ==
    (ReadGetIssued /\ LastCall.status = "404")
        => /\ pc = "returned"
           /\ ret = NoError
           /\ d.id = EmptyId
           /\ d = SetId(ReadEntryBag, EmptyId)

\* A Read of a populated bag that got not-found.
C1_Witness ==
    /\ op = "Read" /\ pc = "returned" /\ Len(calls) = 1
    /\ LastCall.op = "Get" /\ LastCall.status = "404"
    /\ d0.id = PoolId("rg1", "srv1", "pool1") /\ d0.dtu # Nil /\ d.dtu = d0.dtu
    /\ d.id = EmptyId /\ ret = NoError

\* C2: when the get of Read fails with an error other than not-found, Read
\* returns an error and the bag is exactly the bag it received.
C2_ReadErrorKeepsState ==
    (ReadGetIssued /\ LastCall.status \in FailureStatuses)
        => /\ pc = "returned"
           /\ ret # NoError
           /\ d = ReadEntryBag
           /\ d.id # EmptyId

\* A Read of a populated bag whose get failed with a server error.
C2_Witness ==
    /\ op = "Read" /\ pc = "returned" /\ Len(calls) = 1
    /\ LastCall.op = "Get" /\ LastCall.status = "500"
    /\ d0.id = PoolId("rg1", "srv1", "pool1") /\ d0.dtu # Nil
    /\ d = d0 /\ ret # NoError


\* The calls of the current invocation that are gets.
Gets == {i \in 1..Len(calls) : calls[i].op = "Get"}

\* The create-or-update call or the wait of the current invocation failed.
UpsertFailed ==
    \E i \in 1..Len(calls) :
        calls[i].op \in {"CreateOrUpdate", "WaitForCompletion"} /\ calls[i].err # NoError

\* C3: in Create and Update every get comes after a create-or-update call and
\* a wait that both succeeded; when either failed there is no get, the handler
\* has returned and the identifier is the one it was called with.
C3_NoGetBeforeWaitCompleted ==
    InCreate =>
        /\ \A i \in Gets :
              /\ i >= 3
              /\ calls[1].op = "CreateOrUpdate" /\ calls[1].err = NoError
              /\ calls[2].op = "WaitForCompletion" /\ calls[2].err = NoError
        /\ UpsertFailed => (Gets = {} /\ pc = "returned" /\ ret # NoError /\ d.id = d0.id)

\* A Create whose wait failed after the create-or-update call was accepted.
C3_Witness ==
    /\ op = "Create" /\ pc = "returned" /\ Len(calls) = 2
    /\ calls[1].op = "CreateOrUpdate" /\ calls[1].err = NoError
    /\ calls[2].op = "WaitForCompletion" /\ calls[2].err # NoError
    /\ d.id = EmptyId

\* C4: whenever Create or Update has returned success, the identifier is not
\* empty and is the one its get fetched.
C4_CreateYieldsIdentifierOrError ==
    (InCreate /\ pc = "returned" /\ ret = NoError)
        => /\ d.id # EmptyId
           /\ d.id = Deref(Deref(calls[3].body).ID)

\* C5: when the get of Create succeeds without an identifier, Create returns an
\* error at once: no further call, no Read, the bag as it was.
C5_MissingIdFails ==
    (InCreate /\ Len(calls) >= 3 /\ calls[3].status = "200"
        /\ Deref(calls[3].body).ID = Nil)
        => /\ pc = "returned"
           /\ ret # NoError
           /\ Len(calls) = 3
           /\ d = d0

\* An Update whose get carried no identifier.
C5_Witness ==
    /\ op = "Update" /\ pc = "returned" /\ Len(calls) = 3
    /\ calls[3].op = "Get" /\ calls[3].status = "200" /\ Deref(calls[3].body).ID = Nil
    /\ d.id = PoolId("rg1", "srv1", "pool1") /\ ret # NoError

OptionalField(k) ==
    CASE k = "db_dtu_min" -> "DatabaseDtuMin"
      [] k = "db_dtu_max" -> "DatabaseDtuMax"
      [] k = "pool_size" -> "StorageMB"

\* C6: the payload of every create-or-update call carries the configured
\* edition and DTU, and carries each optional sizing field, with the configured
\* value, exactly when the configuration sets it.
C6_PayloadCarriesExactlyWhatIsSet ==
    \A i \in 1..Len(calls) :
        calls[i].op = "CreateOrUpdate" =>
            LET props == Deref(Deref(calls[i].payload).Props)
            IN  /\ props.Edition = desired.edition
                /\ props.Dtu = Some(desired.dtu)
                /\ \A k \in OptionalComputed : props[OptionalField(k)] = desired[k]


\* The identifiers of pools, each with the pool it names.
NamedPools ==
    {Triple(rg, srv, n) : rg \in ResourceGroups, srv \in Servers, n \in {"pool1", "pool2"}}

\* C7: a Delete called with the identifier of a pool has issued, when it
\* returns, one call, a delete addressed to that pool, and returns success when
\* that call did; a Delete called with an identifier that does not parse has
\* issued no call and returns an error; before it returns it has issued none.
C7_DeleteIssuesOneCall ==
    op = "Delete" =>
        /\ pc = "delete" => calls = <<>>
        /\ pc = "returned" =>
              /\ \A t \in NamedPools :
                    d0.id = PoolId(t.rg, t.srv, t.name) =>
                        /\ Len(calls) = 1
                        /\ calls[1].op = "Delete"
                        /\ Triple(calls[1].rg, calls[1].srv, calls[1].name) = t
                        /\ calls[1].err = NoError => ret = NoError
              /\ d0.id \in {OddId, NoSubscriptionId} => (calls = <<>> /\ ret # NoError)

\* A Delete of a pool the service never held, which returned success.
C7_Witness ==
    /\ op = "Delete" /\ pc = "returned" /\ ret = NoError
    /\ d0.id = PoolId("rg1", "srv1", "pool2")
    /\ Len(calls) = 1 /\ calls[1].op = "Delete" /\ calls[1].name = "pool2"

\* C8 as stated: after Delete returns the local identifier is empty.
C8_DeleteDiscardsIdentity == (op = "Delete" /\ pc = "returned") => d.id = EmptyId

\* C8 amended: Delete itself never touches the bag; after it returns, with
\* success or with an error, the identifier and every attribute are the ones
\* it was called with.
C8_DeleteLeavesBag == (op = "Delete" /\ pc = "returned") => (d = d0 /\ d.id # EmptyId)

\* A Delete that returned success with the identifier still in the bag.
C8_Witness ==
    /\ op = "Delete" /\ pc = "returned" /\ ret = NoError
    /\ Len(calls) = 1 /\ calls[1].err = NoError
    /\ d.id = PoolId("rg1", "srv1", "pool1")

\* C9: after a successful get Read has returned success, whatever fields the
\* response leaves nil.
C9_ReadNeverCrashes ==
    (ReadGetIssued /\ LastCall.status = "200") => (pc = "returned" /\ ret = NoError)

\* The call i is the get of Read.
IsReadGet(i) == (op = "Read" /\ i = 1) \/ (InCreate /\ i = 4)

\* A remote call that failed, the not-found of Read's get excepted.
Failed(i) == calls[i].err # NoError /\ ~(IsReadGet(i) /\ calls[i].status = "404")

\* C10 as stated: a failed remote call is the last call of the invocation and
\* the handler returns the very error the call produced.
C10_ErrorPropagatedUnchanged ==
    \A i \in 1..Len(calls) :
        Failed(i) => (i = Len(calls) /\ pc = "returned" /\ ret = calls[i].err)

\* C10 amended: a failed remote call is the last call of the invocation; the
\* handler returns the very error of the call when the call is one of
\* Create's own or the delete, and in Read a new error made of the pool name
\* and the text of the call's error.
C10_ErrorPropagatedWithoutRetry ==
    \A i \in 1..Len(calls) :
        Failed(i) =>
            /\ i = Len(calls)
            /\ pc = "returned"
            /\ ret = IF IsReadGet(i)
                     THEN <<"Error making Read request on Sql Elastic Pool", calls[i].name>>
                              \o calls[i].err
                     ELSE calls[i].err

\* A Read whose get failed with a server error.
C10_Witness ==
    /\ pc = "returned" /\ Len(calls) > 0 /\ Failed(Len(calls))
    /\ op = "Read" /\ calls[1].op = "Get" /\ calls[1].status = "500"
    /\ ret = <<"Error making Read request on Sql Elastic Pool", "pool1",
               "autorest.DetailedError", "500">>

====
